---- MODULE Spec2Model ----
(***************************************************************************)
(* MiniVideo: the IDR selection filter (demuxer/filter.c), the sample map  *)
(* allocator (bitstream_map.c) and the H.264 NAL unit dispatch loop        *)
(* (decoder/h264/h264.c).                                                  *)
(*                                                                         *)
(* The specifications share the variables of this module:                  *)
(*   SpecFilter  one call of idr_filtering on a bounded sample map;        *)
(*   SpecLongMap one call of idr_filtering on a map of a thousand samples; *)
(*   SpecDecode  one run of h264_decode on a bounded stream, the outcome   *)
(*               of every NAL unit handler being an input;                 *)
(*   SpecSlices  one run of h264_decode on a stream of non-IDR slices;     *)
(*   SpecCache   one run of h264_decode on a short stream, following the   *)
(*               SPS/PPS slots and the check made before a slice decode;   *)
(*   SpecCheck   one call of checkDecodingContext on any context;          *)
(*   SpecNorm    one call of computeNormAdjust, entry by entry;            *)
(*   SpecMap     a client of init_bitstream_map and free_bitstream_map;    *)
(*   SpecPrime   calls of is_prime.                                        *)
(***************************************************************************)
EXTENDS Integers, Sequences, FiniteSets

VARIABLES
    \* ---- idr_filtering ----
    fpc,                      \* "idle" | "call" | "returned" | "trapped"
    callerHandle,             \* the caller's *bitstream_map_pointer: NULL or a map id
    heap,                     \* map id -> [state, map]
    picture_number,           \* argument of idr_filtering (the requested count)
    picture_extraction_mode,  \* argument of idr_filtering
    filterRet,                \* retcode of idr_filtering, the value it returns
    temporary_totalsamples_idr, \* local of idr_filtering: survivors written by the first cut
    call,                     \* the last direct call of a library function: name, argument, result
    \* ---- h264_decode ----
    dpc,                      \* "idle" | "start" | "loop" | "slice" | "exit" | "done"
    dc,                       \* the DecodingContext (alive = FALSE when absent)
    dec_picture_number,       \* argument picture_number of h264_decode
    retcode,                  \* local retcode of h264_decode
    samplesLeft,              \* samples the feeder can still deliver
    lastFeed,                 \* retcode as line 103 last set it (the feed's result)
    feedEverFailed,           \* history: some iteration's feed reported FAILURE
    danglingSkipped,          \* history: an IDR slice that named an empty PPS slot was skipped
    cache,                    \* the fields of dc that checkDecodingContext reads
    freed,                    \* the releases freeDecodingContext made, in order
    \* ---- computeNormAdjust ----
    norm                      \* its position (pc, q, i, j), its retcode and the two tables of dc

filterVars == <<fpc, callerHandle, heap, picture_number, picture_extraction_mode, filterRet,
                temporary_totalsamples_idr, call>>
decodeVars == <<dpc, dc, dec_picture_number, retcode, samplesLeft, lastFeed, feedEverFailed,
                danglingSkipped, cache, freed, norm>>
vars == <<fpc, callerHandle, heap, picture_number, picture_extraction_mode, filterRet,
          temporary_totalsamples_idr, call,
          dpc, dc, dec_picture_number, retcode, samplesLeft, lastFeed, feedEverFailed,
          danglingSkipped, cache, freed, norm>>

(***************************************************************************)
(* Program constants                                                       *)
(***************************************************************************)
SUCCESS == 1
FAILURE == 0
NULL == 0

PICTURE_UNFILTERED == 0
PICTURE_ORDERED == 1
PICTURE_DISTRIBUTED == 2
Modes == {PICTURE_UNFILTERED, PICTURE_ORDERED, PICTURE_DISTRIBUTED}

sample_VIDEO_IDR == 3
sample_VIDEO_PARAM == 4

TemporarySlots == 999        \* int temporary_sample_id[999]
PrimeLimit == 9999           \* is_prime: if (n > 9999) return 0
ErrorLimit == 64             \* dc->errorCounter > 64
QSteps == 6                  \* computeNormAdjust: for (q = 0; q < 6; q++)
Size4x4 == 4                 \* rows and columns of normAdjust4x4[q]
Size8x8 == 8                 \* rows and columns of normAdjust8x8[q]

(***************************************************************************)
(* Bounds of the model                                                     *)
(***************************************************************************)
MaxAux == 2                  \* non-IDR samples (SPS/PPS) of an input map
MaxIdr == 6                  \* IDR samples of an input map
MaxReq == 4                  \* largest requested picture_number
IdrSizes == {1, 100}         \* sample sizes of the IDR samples
MaxHeapWord == 1             \* largest value read outside an array of the map that is told apart
MaxLongIdr == 1064           \* IDR samples of the longest input map (SpecLongMap)
MaxSamples == 67             \* samples of the stream given to h264_decode
MaxPictures == 3             \* largest picture_number given to h264_decode
MaxDecoded == 5              \* cap of idrCounter (it is unbounded when picture_number = 0)
MaxNals == 4                 \* samples of a short stream (SpecCache)
MaxCachePictures == 2        \* largest picture_number of a short stream (SpecCache)
MaxEntries == 3              \* largest entries argument of init_bitstream_map (SpecMap)
MaxNumber == 10001           \* largest argument of is_prime (SpecPrime)

InputId == 1                 \* the map built by the demuxer
FilteredId == 2              \* the map allocated by idr_filtering
MapIds == {InputId, FilteredId}

(***************************************************************************)
(* Integer helpers                                                         *)
(***************************************************************************)
Abs(x) == IF x < 0 THEN -x ELSE x

\* C integer division: truncation toward zero (b # 0).
CDiv(a, b) ==
    LET q == Abs(a) \div Abs(b)
    IN  IF (a < 0) = (b < 0) THEN q ELSE -q

\* f[lo] + ... + f[hi - 1], summed by halves to keep the nesting shallow
RECURSIVE SumRange(_, _, _)
SumRange(f, lo, hi) ==
    IF lo >= hi THEN 0
    ELSE IF lo + 1 = hi THEN f[lo]
    ELSE LET mid == (lo + hi) \div 2
         IN  SumRange(f, lo, mid) + SumRange(f, mid, hi)

(***************************************************************************)
(* bitstream_map.c                                                         *)
(***************************************************************************)
ZeroArray(entries) == [i \in 0..(entries - 1) |-> 0]

\* calloc(1, sizeof(BitstreamMap_t)) and the five calloc(entries, ...) arrays
ZeroMap(entries) ==
    [sample_count     |-> 0,
     sample_count_idr |-> 0,
     sample_type      |-> ZeroArray(entries),
     sample_size      |-> ZeroArray(entries),
     sample_offset    |-> ZeroArray(entries),
     sample_pts       |-> ZeroArray(entries),
     sample_dts       |-> ZeroArray(entries)]

\* Variant of the allocator: a request of zero entries is served.
init_bitstream_map_retAnyEntries(handle, entries, allocOk) ==
    IF handle # NULL THEN FAILURE
    ELSE IF ~allocOk THEN FAILURE
    ELSE SUCCESS

\* init_bitstream_map(&handle, entries): the returned code; allocOk is
\* whether every calloc succeeded.
init_bitstream_map_ret(handle, entries, allocOk) ==
    IF handle # NULL THEN FAILURE
    ELSE IF entries = 0 THEN FAILURE
    ELSE IF ~allocOk THEN FAILURE
    ELSE SUCCESS

Unallocated == [state |-> "unallocated"]
Live(m) == [state |-> "live", map |-> m]
\* free_bitstream_map releases the arrays and the structure
Freed(cell) == [state |-> "freed", map |-> cell.map]

(***************************************************************************)
(* filter.c : idr_filtering                                                *)
(***************************************************************************)
\* Variants of the first clamp: the comparison turned round, and no clamp.
ClampToIdrCountTurned(map, n) ==
    IF map.sample_count_idr = 0 THEN 0
    ELSE IF map.sample_count_idr > n THEN map.sample_count_idr
    ELSE n

ClampToIdrCountMissing(map, n) == n

\* lines 76-85: first clamp of picture_number against sample_count_idr
ClampToIdrCount(map, n) ==
    IF map.sample_count_idr = 0 THEN 0
    ELSE IF map.sample_count_idr < n THEN map.sample_count_idr
    ELSE n

\* line 95
Spspps(map) == map.sample_count - map.sample_count_idr

\* lines 99-102
Payload(map) == SumRange(map.sample_size, Spspps(map), map.sample_count)

\* line 105: (int)(((double)payload / (double)sample_count_idr) / 1.66).
\* With sample_count_idr = 0 the quotient is NaN and the conversion to int
\* is undefined: nanInt is the value the build produces.
FrameSizeThreshold(map, nanInt) ==
    IF map.sample_count_idr = 0 THEN nanInt
    ELSE (Payload(map) * 100) \div (map.sample_count_idr * 166)

\* Variant of the border: 3% rounded down.
FrameBordersFloor(map) == (3 * map.sample_count_idr) \div 100

\* line 109: (int)ceil(sample_count_idr * 0.03)
FrameBorders(map) == (3 * map.sample_count_idr + 99) \div 100

\* line 116: the size test of the first cut
AboveThreshold(size, threshold) == size > threshold

\* lines 112-121: the first cut, the iterations i .. last - 1 in order (the
\* range is evaluated by halves to keep the nesting shallow)
RECURSIVE FirstCut(_, _, _, _)
FirstCut(map, i, last, threshold) ==
    IF i >= last THEN <<>>
    ELSE IF i + 1 = last
         THEN IF AboveThreshold(map.sample_size[i + Spspps(map)], threshold)
              THEN <<i + Spspps(map)>>
              ELSE <<>>
    ELSE LET mid == (i + last) \div 2
         IN  FirstCut(map, i, mid, threshold) \o FirstCut(map, mid, last, threshold)

\* The written prefix of temporary_sample_id after the first cut
TemporaryIds(map, nanInt) ==
    FirstCut(map, FrameBorders(map), map.sample_count_idr - FrameBorders(map),
             FrameSizeThreshold(map, nanInt))

\* temporary_sample_id[k]: the array is zero initialised (line 59); a
\* position past its end holds what the first cut wrote there (what an
\* unwritten position past the end holds is given by StackWordRead)
TemporarySampleId(ids, k) == IF k < Len(ids) THEN ids[k + 1] ELSE 0

\* lines 124-125: second clamp of picture_number
ClampToSurvivors(p, total) == IF p > total THEN total ELSE p

\* line 128: (int)ceil(total / (picture_number-1)), an integer division
FrameJump(total, p) == CDiv(total, p - 1)

\* Variant of the selection: ORDERED starting one survivor too late.
SelectionIndexOffByOne(mode, i, jump) ==
    IF mode = PICTURE_ORDERED THEN i + 1 ELSE i * jump

\* lines 156-171: the index of temporary_sample_id read for IDR entry i
SelectionIndex(mode, i, jump) ==
    IF mode = PICTURE_ORDERED THEN i ELSE i * jump

\* lines 156-171: the entries i of the second cut that read temporary_sample_id
\* past its end
ReadsPastArray(p, mode, jump) ==
    {i \in 0..(p - 1) : SelectionIndex(mode, i, jump) >= TemporarySlots}

\* lines 135-172: the filtered map, written over the zeroed map that
\* init_bitstream_map allocated. sample_dts is never written.
BuildFiltered(map, ids, p, mode, jump) ==
    LET sp      == Spspps(map)
        total   == Len(ids)
        fresh   == ZeroMap(sp + total)
        copied  == mode \in {PICTURE_ORDERED, PICTURE_DISTRIBUTED}
        src(i)  == TemporarySampleId(ids, SelectionIndex(mode, i - sp, jump))
        Fill(old, arr) == [i \in DOMAIN old |->
                             IF i < sp THEN arr[i]
                             ELSE IF i < sp + p /\ copied THEN arr[src(i)]
                             ELSE old[i]]
    IN  [fresh EXCEPT
           !.sample_count     = sp + total,
           !.sample_count_idr = total,
           !.sample_type      = Fill(@, map.sample_type),
           !.sample_size      = Fill(@, map.sample_size),
           !.sample_offset    = Fill(@, map.sample_offset),
           !.sample_pts       = Fill(@, map.sample_pts)]

\* lines 179-180: free_bitstream_map(bitstream_map_pointer) sets the caller's
\* handle to NULL; the assignment bitstream_map_pointer = &map_filtered
\* changes the parameter only.
HandleAfterReplace(old, filtered) == NULL

\* What the build can produce for (int)NaN (x86: INT_MIN, ARM: 0).
NanToInt == {-2147483647 - 1, 0}

\* An input map as the demuxer builds it: parameter sets first, then IDRs.
DemuxedMap(aux, sizes) ==
    LET c == Len(sizes)
        n == aux + c
    IN  [sample_count     |-> n,
         sample_count_idr |-> c,
         sample_type      |-> [i \in 0..(n - 1) |->
                                 IF i < aux THEN sample_VIDEO_PARAM ELSE sample_VIDEO_IDR],
         sample_size      |-> [i \in 0..(n - 1) |->
                                 IF i < aux THEN 8 + i ELSE sizes[i - aux + 1]],
         sample_offset    |-> [i \in 0..(n - 1) |-> 1000 + 128 * i],
         sample_pts       |-> [i \in 0..(n - 1) |-> 40 * (i + 1)],
         sample_dts       |-> [i \in 0..(n - 1) |-> 40 * (i + 1) - 20]]

SizeSeqs == UNION {[1..c -> IdrSizes] : c \in 0..MaxIdr}

\* The IDR sizes of two longer maps: 100 samples of one size, and nine
\* samples of size 100 followed by one of size 1
ScenarioSizes ==
    {[i \in 1..100 |-> 100], [i \in 1..10 |-> IF i <= 9 THEN 100 ELSE 1]}

\* calloc(1, sizeof(DecodingContext_t)): every counter and flag is zero
NoContext ==
    [alive          |-> FALSE,
     decoderRunning |-> FALSE,
     IdrPicFlag     |-> FALSE,
     picture_number |-> 0,
     idrCounter     |-> 0,
     frameCounter   |-> 0,
     errorCounter   |-> 0]

\* The slots of sps_array and pps_array that are followed (the first of the
\* MAX_SPS and MAX_PPS slots): two sequence parameter set ids, so that the SPS
\* a PPS names and the active SPS can differ, and two picture parameter set
\* ids, so that the PPS a slice names and the active PPS can differ
SpsIds == {0, 1}
PpsIds == {0, 1}

\* A slot of sps_array / pps_array and the active_slice pointer: NULL, or
\* the structure with the fields checkDecodingContext follows.
NullSps == [allocated |-> FALSE]
NullPps == [allocated |-> FALSE, seq_parameter_set_id |-> 0]
NullSlice == [allocated |-> FALSE, pic_parameter_set_id |-> 0]

\* No DecodingContext: nothing to read
NoCache ==
    [bitstr       |-> NULL,
     active_nalu  |-> NULL,
     sps_array    |-> [i \in SpsIds |-> NullSps],
     pps_array    |-> [i \in PpsIds |-> NullPps],
     active_sps   |-> 0,
     active_pps   |-> 0,
     active_slice |-> NullSlice]

\* No DecodingContext, or one whose tables are not followed: no tables,
\* computeNormAdjust not entered
NoNorm ==
    [pc            |-> "idle",
     q             |-> 0,
     i             |-> 0,
     j             |-> 0,
     retcode       |-> FAILURE,
     normAdjust4x4 |-> <<>>,
     normAdjust8x8 |-> <<>>]

\* calloc(1, sizeof(DecodingContext_t)): normAdjust4x4[6][4][4] and
\* normAdjust8x8[6][8][8] are zero when computeNormAdjust is called
CallocNorm ==
    [NoNorm EXCEPT
       !.pc = "call",
       !.normAdjust4x4 = [q \in 0..(QSteps - 1) |->
                            [i \in 0..(Size4x4 - 1) |-> [j \in 0..(Size4x4 - 1) |-> 0]]],
       !.normAdjust8x8 = [q \in 0..(QSteps - 1) |->
                            [i \in 0..(Size8x8 - 1) |-> [j \in 0..(Size8x8 - 1) |-> 0]]]]

(***************************************************************************)
(* h264.c : computeNormAdjust                                              *)
(***************************************************************************)
\* lines 452-470: the seed matrices, v4x4[q][k] and v8x8[q][k]
v4x4 ==
    <<<<10, 16, 13>>,
      <<11, 18, 14>>,
      <<13, 20, 16>>,
      <<14, 23, 18>>,
      <<16, 25, 20>>,
      <<18, 29, 23>>>>

v8x8 ==
    <<<<20, 18, 32, 19, 25, 24>>,
      <<22, 19, 35, 21, 28, 26>>,
      <<26, 23, 42, 24, 33, 31>>,
      <<28, 25, 45, 26, 35, 33>>,
      <<32, 28, 51, 30, 40, 38>>,
      <<36, 32, 58, 34, 46, 43>>>>

\* C arrays are indexed from 0
V4x4(q, k) == v4x4[q + 1][k + 1]
V8x8(q, k) == v8x8[q + 1][k + 1]

\* Variant of lines 479-484: the tests of the second and third value swapped.
NormAdjust4x4EntrySwapped(q, i, j) ==
    IF (i % 2 = 0) /\ (j % 2 = 0) THEN V4x4(q, 0)
    ELSE IF (i % 2 = 1) /\ (j % 2 = 1) THEN V4x4(q, 2)
    ELSE V4x4(q, 1)

\* lines 479-484: the value stored in normAdjust4x4[q][i][j]
NormAdjust4x4Entry(q, i, j) ==
    IF (i % 2 = 0) /\ (j % 2 = 0) THEN V4x4(q, 0)
    ELSE IF (i % 2 = 1) /\ (j % 2 = 1) THEN V4x4(q, 1)
    ELSE V4x4(q, 2)

\* Variant of lines 495-506: the first test made modulo 2 as in the 4x4 table.
NormAdjust8x8EntryEvenFirst(q, i, j) ==
    IF (i % 2 = 0) /\ (j % 2 = 0) THEN V8x8(q, 0)
    ELSE IF (i % 2 = 1) /\ (j % 2 = 1) THEN V8x8(q, 1)
    ELSE IF (i % 4 = 2) /\ (j % 4 = 2) THEN V8x8(q, 2)
    ELSE IF ((i % 4 = 0) /\ (j % 2 = 1)) \/ ((i % 2 = 1) /\ (j % 4 = 0)) THEN V8x8(q, 3)
    ELSE IF ((i % 4 = 0) /\ (j % 4 = 2)) \/ ((i % 4 = 2) /\ (j % 4 = 0)) THEN V8x8(q, 4)
    ELSE V8x8(q, 5)

\* lines 495-506: the value stored in normAdjust8x8[q][i][j]
NormAdjust8x8Entry(q, i, j) ==
    IF (i % 4 = 0) /\ (j % 4 = 0) THEN V8x8(q, 0)
    ELSE IF (i % 2 = 1) /\ (j % 2 = 1) THEN V8x8(q, 1)
    ELSE IF (i % 4 = 2) /\ (j % 4 = 2) THEN V8x8(q, 2)
    ELSE IF ((i % 4 = 0) /\ (j % 2 = 1)) \/ ((i % 2 = 1) /\ (j % 4 = 0)) THEN V8x8(q, 3)
    ELSE IF ((i % 4 = 0) /\ (j % 4 = 2)) \/ ((i % 4 = 2) /\ (j % 4 = 0)) THEN V8x8(q, 4)
    ELSE V8x8(q, 5)

\* lines 443-517 run to the end: every entry of the two tables is stored,
\* the loop counters are past their last values, SUCCESS is returned
computeNormAdjust(n) ==
    [n EXCEPT
       !.pc = "returned",
       !.q = QSteps,
       !.i = Size8x8,
       !.j = Size8x8,
       !.retcode = SUCCESS,
       !.normAdjust4x4 = [q \in 0..(QSteps - 1) |->
                            [i \in 0..(Size4x4 - 1) |->
                               [j \in 0..(Size4x4 - 1) |-> NormAdjust4x4Entry(q, i, j)]]],
       !.normAdjust8x8 = [q \in 0..(QSteps - 1) |->
                            [i \in 0..(Size8x8 - 1) |->
                               [j \in 0..(Size8x8 - 1) |-> NormAdjust8x8Entry(q, i, j)]]]]

DecodeIdle ==
    /\ dpc = "idle"
    /\ dc = NoContext
    /\ cache = NoCache
    /\ freed = <<>>
    /\ norm = NoNorm
    /\ danglingSkipped = FALSE
    /\ dec_picture_number = 0
    /\ retcode = FAILURE
    /\ samplesLeft = 0
    /\ lastFeed = FAILURE
    /\ feedEverFailed = FALSE

\* No library function was called directly
NoCall == [fn |-> "none", arg |-> 0, ret |-> 0]

FilterIdle ==
    /\ fpc = "idle"
    /\ call = NoCall
    /\ callerHandle = NULL
    /\ heap = [id \in MapIds |-> Unallocated]
    /\ picture_number = 0
    /\ picture_extraction_mode = PICTURE_UNFILTERED
    /\ filterRet = FAILURE
    /\ temporary_totalsamples_idr = 0

FilterInit ==
    /\ fpc = "call"
    /\ call = NoCall
    /\ picture_number \in 0..MaxReq
    /\ picture_extraction_mode \in Modes
    /\ filterRet = FAILURE
    /\ temporary_totalsamples_idr = 0
    /\ \/ /\ callerHandle = NULL
          /\ heap = [id \in MapIds |-> Unallocated]
       \/ /\ callerHandle = InputId
          /\ \E aux \in 0..MaxAux, sizes \in SizeSeqs \cup ScenarioSizes :
                heap = [id \in MapIds |->
                          IF id = InputId THEN Live(DemuxedMap(aux, sizes))
                          ELSE Unallocated]
    /\ DecodeIdle

\* lines 61-64: invalid handle
FilterInvalidMap ==
    /\ fpc = "call"
    /\ callerHandle = NULL
    /\ filterRet' = FAILURE
    /\ fpc' = "returned"
    /\ UNCHANGED <<callerHandle, heap, picture_number, picture_extraction_mode,
                   temporary_totalsamples_idr, call>>
    /\ UNCHANGED decodeVars

\* lines 87-91: PICTURE_UNFILTERED
FilterUnfiltered ==
    /\ fpc = "call"
    /\ callerHandle # NULL
    /\ picture_extraction_mode = PICTURE_UNFILTERED
    /\ filterRet' = ClampToIdrCount(heap[callerHandle].map, picture_number)
    /\ fpc' = "returned"
    /\ UNCHANGED <<callerHandle, heap, picture_number, picture_extraction_mode,
                   temporary_totalsamples_idr, call>>
    /\ UNCHANGED decodeVars

\* lines 92-128 with picture_number - 1 = 0: the integer division by zero of
\* line 128 is undefined; the build either traps (x86 SIGFPE) ...
FilterDivideByZeroTrap ==
    /\ fpc = "call"
    /\ callerHandle # NULL
    /\ picture_extraction_mode # PICTURE_UNFILTERED
    /\ \E nanInt \in NanToInt :
         LET map == heap[callerHandle].map
             ids == TemporaryIds(map, nanInt)
             p   == ClampToSurvivors(ClampToIdrCount(map, picture_number), Len(ids))
         IN  /\ Len(ids) <= TemporarySlots
             /\ p - 1 = 0
             /\ temporary_totalsamples_idr' = Len(ids)
    /\ fpc' = "trapped"
    /\ UNCHANGED <<callerHandle, heap, picture_number, picture_extraction_mode, filterRet, call>>
    /\ UNCHANGED decodeVars

\* lines 92-185: ORDERED / DISTRIBUTED, every position of temporary_sample_id
\* written and read lying inside the array (no word past it is read). When
\* picture_number - 1 = 0 and the build does not trap, frame_jump is whatever
\* the division produced (jump0).
FilterBuild ==
    /\ fpc = "call"
    /\ callerHandle # NULL
    /\ picture_extraction_mode # PICTURE_UNFILTERED
    /\ \E nanInt \in NanToInt, allocOk \in BOOLEAN, jump0 \in {0, -1} :
         LET map   == heap[callerHandle].map
             ids   == TemporaryIds(map, nanInt)
             total == Len(ids)
             p     == ClampToSurvivors(ClampToIdrCount(map, picture_number), total)
             jump  == IF p - 1 = 0 THEN jump0 ELSE FrameJump(total, p)
             ok    == init_bitstream_map_ret(NULL, Spspps(map) + total, allocOk)
         IN  /\ total <= TemporarySlots
             /\ ok = SUCCESS => ReadsPastArray(p, picture_extraction_mode, jump) = {}
             /\ temporary_totalsamples_idr' = total
             /\ IF ok = SUCCESS
                THEN /\ heap' = [heap EXCEPT
                                   ![FilteredId] = Live(BuildFiltered(map, ids, p,
                                                        picture_extraction_mode, jump)),
                                   ![callerHandle] = Freed(heap[callerHandle])]
                     /\ callerHandle' = HandleAfterReplace(callerHandle, FilteredId)
                     /\ filterRet' = p
                ELSE /\ UNCHANGED <<heap, callerHandle>>
                     /\ filterRet' = ok
    /\ fpc' = "returned"
    /\ UNCHANGED <<picture_number, picture_extraction_mode, call>>
    /\ UNCHANGED decodeVars

FilterNext ==
    \/ FilterInvalidMap
    \/ FilterUnfiltered
    \/ FilterDivideByZeroTrap
    \/ FilterBuild

SpecFilter == FilterInit /\ [][FilterNext]_vars

(***************************************************************************)
(* filter.c : idr_filtering on maps of about a thousand IDR samples        *)
(***************************************************************************)
\* A read past temporary_sample_id can find any int on the stack. A word in
\* 0..sample_count - 1 is the number of a sample of the map. With any other
\* word, negative or sample_count and more, lines 158-169 index the arrays of
\* the map outside their bounds, and what the entry then holds depends on the
\* memory found there, not on the word: NoSample stands for every such word.
NoSample == 0 - 1
StackWords(map) == 0..(map.sample_count - 1) \cup {NoSample}

\* What lines 158-169 find outside the four arrays of the map is any machine
\* word (padding, a header of the allocator, an entry of another array, ...).
\* The words 0..MaxHeapWord are told apart, OtherWord stands for every other
\* value of the word.
OtherWord == 0 - 1
HeapWords == 0..MaxHeapWord \cup {OtherWord}
HeapReads == [sample_type : HeapWords, sample_size : HeapWords,
              sample_offset : HeapWords, sample_pts : HeapWords]

\* lines 158-169: the entries of the second cut that select a position past
\* the array that the first cut did not write
ReadsStackWord(total, p, mode, jump) ==
    {i \in ReadsPastArray(p, mode, jump) : SelectionIndex(mode, i, jump) >= total}

\* The word found there and, when it is no sample of the map, the words found
\* outside the arrays (nothing is read outside them when it is a sample)
PastReads(map) ==
    {<<word, [sample_type |-> 0, sample_size |-> 0, sample_offset |-> 0, sample_pts |-> 0]>> :
        word \in StackWords(map) \ {NoSample}}
    \cup {<<NoSample, beside>> : beside \in HeapReads}

\* lines 158-169 for the entries that read such a position: they hold the
\* sample that the word names, or what lies outside the arrays. Only the last
\* entry can do so: entry i < p - 1 selects i * frame_jump <= total -
\* frame_jump, a position that is in the array or was written.
StackWordRead(built, map, entries, word, beside) ==
    IF entries = {} THEN built
    ELSE LET e == Spspps(map) + CHOOSE i \in entries : TRUE
             Sample(arr, heapWord) == IF word \in DOMAIN arr THEN arr[word] ELSE heapWord
         IN  [built EXCEPT
                !.sample_type[e]   = Sample(map.sample_type, beside.sample_type),
                !.sample_size[e]   = Sample(map.sample_size, beside.sample_size),
                !.sample_offset[e] = Sample(map.sample_offset, beside.sample_offset),
                !.sample_pts[e]    = Sample(map.sample_pts, beside.sample_pts)]

\* The IDR sizes of the long maps: MaxLongIdr - 1 or MaxLongIdr samples of size 1
LongSizes == {[i \in 1..c |-> 1] : c \in (MaxLongIdr - 1)..MaxLongIdr}

LongMapInit ==
    /\ fpc = "call"
    /\ call = NoCall
    /\ picture_number \in 0..MaxReq
    /\ picture_extraction_mode \in Modes
    /\ filterRet = FAILURE
    /\ temporary_totalsamples_idr = 0
    /\ \/ /\ callerHandle = NULL
          /\ heap = [id \in MapIds |-> Unallocated]
       \/ /\ callerHandle = InputId
          /\ \E aux \in 0..MaxAux, sizes \in LongSizes :
                heap = [id \in MapIds |->
                          IF id = InputId THEN Live(DemuxedMap(aux, sizes))
                          ELSE Unallocated]
    /\ DecodeIdle

\* lines 112-121 and 156-171: line 118 writes past the end of
\* temporary_sample_id when more than 999 samples survive, lines 158-169 read
\* past it when the selected position is 999 or more (the second cut runs
\* only when init_bitstream_map succeeded)
PastArray(total, p, mode, jump, ok) ==
    \/ total > TemporarySlots
    \/ ok = SUCCESS /\ ReadsPastArray(p, mode, jump) # {}

\* An access past the array is undefined; the build either faults (the stack
\* protector aborts, the return address was overwritten, or the word read
\* there is no sample of the map) ...
FilterOverflowTrap ==
    /\ fpc = "call"
    /\ callerHandle # NULL
    /\ picture_extraction_mode # PICTURE_UNFILTERED
    /\ \E nanInt \in NanToInt :
       \E total \in {Len(TemporaryIds(heap[callerHandle].map, nanInt))} :
         LET map == heap[callerHandle].map
             p   == ClampToSurvivors(ClampToIdrCount(map, picture_number), total)
         IN  /\ \E allocOk \in BOOLEAN, jump0 \in {0, -1} :
                  PastArray(total, p, picture_extraction_mode,
                            IF p - 1 = 0 THEN jump0 ELSE FrameJump(total, p),
                            init_bitstream_map_ret(NULL, Spspps(map) + total, allocOk))
             /\ temporary_totalsamples_idr' = total
    /\ fpc' = "trapped"
    /\ UNCHANGED <<callerHandle, heap, picture_number, picture_extraction_mode, filterRet, call>>
    /\ UNCHANGED decodeVars

\* ... or the writes land in memory that nothing else uses, a position read
\* past the array holds what the first cut wrote there or else a word of the
\* stack, and lines 122-185 go on with that sample number; when the word is no
\* sample of the map the entry is read in the heap beside the arrays
FilterOverflowBuild ==
    /\ fpc = "call"
    /\ callerHandle # NULL
    /\ picture_extraction_mode # PICTURE_UNFILTERED
    /\ \E nanInt \in NanToInt, allocOk \in BOOLEAN, jump0 \in {0, -1} :
       \E ids \in {TemporaryIds(heap[callerHandle].map, nanInt)} :
         LET map     == heap[callerHandle].map
             total   == Len(ids)
             p       == ClampToSurvivors(ClampToIdrCount(map, picture_number), total)
             jump    == IF p - 1 = 0 THEN jump0 ELSE FrameJump(total, p)
             ok      == init_bitstream_map_ret(NULL, Spspps(map) + total, allocOk)
             entries == ReadsStackWord(total, p, picture_extraction_mode, jump)
         IN  /\ PastArray(total, p, picture_extraction_mode, jump, ok)
             /\ temporary_totalsamples_idr' = total
             /\ IF ok = SUCCESS
                THEN /\ \E built \in {BuildFiltered(map, ids, p, picture_extraction_mode, jump)},
                           read \in IF entries = {} THEN {<<0, 0>>} ELSE PastReads(map) :
                          heap' = [heap EXCEPT
                                     ![FilteredId] = Live(StackWordRead(built, map, entries,
                                                                        read[1], read[2])),
                                     ![callerHandle] = Freed(heap[callerHandle])]
                     /\ callerHandle' = HandleAfterReplace(callerHandle, FilteredId)
                     /\ filterRet' = p
                ELSE /\ UNCHANGED <<heap, callerHandle>>
                     /\ filterRet' = ok
    /\ fpc' = "returned"
    /\ UNCHANGED <<picture_number, picture_extraction_mode, call>>
    /\ UNCHANGED decodeVars

LongMapNext ==
    \/ FilterInvalidMap
    \/ FilterUnfiltered
    \/ FilterDivideByZeroTrap
    \/ FilterBuild
    \/ FilterOverflowTrap
    \/ FilterOverflowBuild

SpecLongMap == LongMapInit /\ [][LongMapNext]_vars

(***************************************************************************)
(* bitstream_map.c : a client that owns one handle                         *)
(***************************************************************************)
MapInit == FilterIdle /\ DecodeIdle

\* lines 43-105: init_bitstream_map(&callerHandle, entries). On success the
\* handle refers to a new zeroed map (id is its address); every failing
\* path leaves the handle as it was (line 98 stores NULL over NULL).
InitBitstreamMap ==
    /\ \E entries \in 0..MaxEntries, allocOk \in BOOLEAN, id \in MapIds :
         LET r == init_bitstream_map_ret(callerHandle, entries, allocOk)
         IN  /\ heap[id].state # "live"
             /\ call' = [fn |-> "init_bitstream_map", arg |-> entries, ret |-> r]
             /\ IF r = SUCCESS
                THEN /\ callerHandle' = id
                     /\ heap' = [heap EXCEPT ![id] = Live(ZeroMap(entries))]
                ELSE UNCHANGED <<callerHandle, heap>>
    /\ UNCHANGED <<fpc, picture_number, picture_extraction_mode, filterRet,
                   temporary_totalsamples_idr>>
    /\ UNCHANGED decodeVars

\* lines 113-149: free_bitstream_map(&callerHandle)
FreeBitstreamMap ==
    /\ call' = [fn |-> "free_bitstream_map", arg |-> 0, ret |-> 0]
    /\ IF callerHandle # NULL
       THEN /\ heap' = [heap EXCEPT ![callerHandle] = Freed(heap[callerHandle])]
            /\ callerHandle' = NULL
       ELSE UNCHANGED <<callerHandle, heap>>
    /\ UNCHANGED <<fpc, picture_number, picture_extraction_mode, filterRet,
                   temporary_totalsamples_idr>>
    /\ UNCHANGED decodeVars

MapNext ==
    \/ InitBitstreamMap
    \/ FreeBitstreamMap

SpecMap == MapInit /\ [][MapNext]_vars

(***************************************************************************)
(* utils.c : is_prime                                                      *)
(***************************************************************************)
\* line 166: i < sqrt(n), an unsigned compared with a double. For n <= 9999
\* the double is exact enough that the test is i * i < n.
BelowSqrt(i, n) == i * i < n

\* lines 165-172: the loop from the value i of the loop variable
RECURSIVE is_prime_loop(_, _)
is_prime_loop(n, i) ==
    IF ~BelowSqrt(i, n) THEN 1
    ELSE IF (n % i = 0) /\ (i # n) THEN 0
    ELSE is_prime_loop(n, i + 2)

\* lines 156-175
is_prime(n) == IF n > PrimeLimit THEN 0 ELSE is_prime_loop(n, 2)

PrimeInit == FilterIdle /\ DecodeIdle

\* One call of is_prime on an unsigned argument
IsPrimeCall ==
    /\ call = NoCall
    /\ \E n \in 0..MaxNumber :
          call' = [fn |-> "is_prime", arg |-> n, ret |-> is_prime(n)]
    /\ UNCHANGED <<fpc, callerHandle, heap, picture_number, picture_extraction_mode, filterRet,
                   temporary_totalsamples_idr>>
    /\ UNCHANGED decodeVars

PrimeNext == IsPrimeCall

SpecPrime == PrimeInit /\ [][PrimeNext]_vars

(***************************************************************************)
(* h264.c : h264_decode                                                    *)
(***************************************************************************)
NALU_TYPE_SLICE == 1
NALU_TYPE_IDR == 5
NALU_TYPE_SEI == 6
NALU_TYPE_SPS == 7
NALU_TYPE_PPS == 8
\* nal_unit_type values that fall into the default case of the switch
UnsupportedNalTypes == {0, 9}

\* lines 76-97: initDecodingContext succeeded, export parameters stored,
\* decoderRunning set
StartedContext(pn) ==
    [NoContext EXCEPT !.alive = TRUE, !.picture_number = pn, !.decoderRunning = TRUE]

\* initDecodingContext, lines 239-293: calloc leaves active_sps and
\* active_pps zero, bitstr and active_nalu are allocated (1 stands for the
\* address), every slot and active_slice is NULL
StartedCache == [NoCache EXCEPT !.bitstr = 1, !.active_nalu = 1]

\* Variant of the check: the SPS that the slice's PPS names is not looked up.
checkDecodingContextSkipsPpsSps(c) ==
    IF \/ c.bitstr = NULL
       \/ c.active_nalu = NULL
       \/ ~c.sps_array[c.active_sps].allocated
       \/ ~c.pps_array[c.active_pps].allocated
       \/ ~c.active_slice.allocated
       \/ ~c.pps_array[c.active_slice.pic_parameter_set_id].allocated
    THEN FAILURE ELSE SUCCESS

\* lines 317-371: retcode starts as SUCCESS and every failed test sets FAILURE
checkDecodingContext(c) ==
    LET r1 == IF c.bitstr = NULL THEN FAILURE ELSE SUCCESS
        r2 == IF c.active_nalu = NULL THEN FAILURE ELSE r1
        r3 == IF ~c.sps_array[c.active_sps].allocated THEN FAILURE ELSE r2
        r4 == IF ~c.pps_array[c.active_pps].allocated THEN FAILURE ELSE r3
    IN  IF ~c.active_slice.allocated THEN FAILURE
        ELSE LET pps == c.pps_array[c.active_slice.pic_parameter_set_id]
             IN  IF ~pps.allocated THEN FAILURE
                 ELSE IF ~c.sps_array[pps.seq_parameter_set_id].allocated THEN FAILURE
                 ELSE r4

\* decodeSPS succeeded: the parsed SPS is inserted at slot seq_parameter_set_id
decodeSPS(c, id) == [c EXCEPT !.sps_array[id] = [allocated |-> TRUE]]

\* decodePPS succeeded: the parsed PPS is inserted at slot pic_parameter_set_id
decodePPS(c, id, sid) ==
    [c EXCEPT !.pps_array[id] = [allocated |-> TRUE, seq_parameter_set_id |-> sid]]

\* decode_slice up to the check: the slice header is parsed into a new
\* active_slice; as and ap are the active_sps and active_pps it leaves
SliceHeader(c, pid, as, ap) ==
    [c EXCEPT !.active_slice = [allocated |-> TRUE, pic_parameter_set_id |-> pid],
              !.active_sps = as,
              !.active_pps = ap]

\* decode_slice after the header: the slice decoder aborts the slice when the
\* verification of section 4.F of the specification (checkDecodingContext)
\* fails, and otherwise decodes it, which succeeds or not (ok)
decode_slice(c, ok) ==
    IF checkDecodingContext(c) = SUCCESS /\ ok THEN SUCCESS ELSE FAILURE

\* Variant of the success test: stop at the first decoded picture.
ReachedPictureNumberFirst(d, pn) == d.idrCounter >= 1

\* Variant of the success test: a request of zero pictures never matches.
ReachedPictureNumberPositive(d, pn) == pn >= 1 /\ d.idrCounter = pn

\* Variant of the success test: the loop stops one picture too late.
ReachedPictureNumberBeyond(d, pn) == d.idrCounter > pn

\* Variant of the error test: the budget is spent at the limit itself.
ErrorsOverLimitAtLimit(d) == d.errorCounter >= ErrorLimit

\* lines 197 and 205: the two stop conditions
ReachedPictureNumber(d, pn) == d.idrCounter = pn
ErrorsOverLimit(d) == d.errorCounter > ErrorLimit

\* lines 197-211: the end of one iteration; r is retcode before line 197
LoopTail(d, r, pn) ==
    LET r1 == IF ReachedPictureNumber(d, pn) THEN SUCCESS ELSE r
        d1 == IF ReachedPictureNumber(d, pn) THEN [d EXCEPT !.decoderRunning = FALSE] ELSE d
        stop == ErrorsOverLimit(d1) \/ r1 = FAILURE
    IN  [dc      |-> IF stop THEN [d1 EXCEPT !.decoderRunning = FALSE] ELSE d1,
         retcode |-> IF stop THEN FAILURE ELSE r1]

\* Variant of the IDR case: a decoded picture does not reset errorCounter.
HandleIdrKeepsErrors(d, ok) ==
    IF ok THEN [d EXCEPT !.idrCounter = @ + 1,
                         !.frameCounter = @ + 1,
                         !.IdrPicFlag = FALSE]
    ELSE [d EXCEPT !.errorCounter = @ + 1, !.IdrPicFlag = FALSE]

\* Variant of the IDR case: the counters grow whatever decode_slice returned.
HandleIdrCountsFailed(d, ok) ==
    IF ok THEN [d EXCEPT !.errorCounter = 0,
                         !.idrCounter = @ + 1,
                         !.frameCounter = @ + 1,
                         !.IdrPicFlag = FALSE]
    ELSE [d EXCEPT !.errorCounter = @ + 1,
                   !.idrCounter = @ + 1,
                   !.frameCounter = @ + 1,
                   !.IdrPicFlag = FALSE]

\* Variant of the IDR case: a failed decode_slice is not counted as an error.
HandleIdrForgetsFailure(d, ok) ==
    IF ok THEN [d EXCEPT !.errorCounter = 0,
                         !.idrCounter = @ + 1,
                         !.frameCounter = @ + 1,
                         !.IdrPicFlag = FALSE]
    ELSE [d EXCEPT !.IdrPicFlag = FALSE]

\* lines 117-136: case NALU_TYPE_IDR
HandleIdr(d, ok) ==
    IF ok THEN [d EXCEPT !.errorCounter = 0,
                         !.idrCounter = @ + 1,
                         !.frameCounter = @ + 1,
                         !.IdrPicFlag = FALSE]
    ELSE [d EXCEPT !.errorCounter = @ + 1, !.IdrPicFlag = FALSE]

\* lines 138-178: cases SEI, SPS, PPS
HandleParam(d, ok) == IF ok THEN d ELSE [d EXCEPT !.errorCounter = @ + 1]

\* lines 126, 144, 158, 172: a handler that succeeds overwrites retcode
RetcodeAfterHandler(r, ok) == IF ok THEN SUCCESS ELSE r

\* lines 180-185 and 191-195
CountError(d) == [d EXCEPT !.errorCounter = @ + 1]

DecodeInit ==
    /\ dpc = "start"
    /\ dc = NoContext
    /\ dec_picture_number \in 0..MaxPictures
    /\ retcode = FAILURE
    /\ samplesLeft \in 0..MaxSamples
    /\ lastFeed = FAILURE
    /\ feedEverFailed = FALSE
    /\ cache = NoCache
    /\ freed = <<>>
    /\ norm = NoNorm
    /\ danglingSkipped = FALSE
    /\ FilterIdle

\* lines 73-82: initDecodingContext returns NULL
DecodeNoContext ==
    /\ dpc = "start"
    /\ dpc' = "done"
    /\ UNCHANGED <<dc, dec_picture_number, retcode, samplesLeft, lastFeed, feedEverFailed,
                   danglingSkipped, cache, freed, norm>>
    /\ UNCHANGED filterVars

\* lines 73-97: the context is allocated, computeNormAdjust fills its tables
\* (line 85), the arguments are stored and the decoder is set running
DecodeStart ==
    /\ dpc = "start"
    /\ dc' = StartedContext(dec_picture_number)
    /\ cache' = StartedCache
    /\ norm' = computeNormAdjust(CallocNorm)
    /\ dpc' = "loop"
    /\ UNCHANGED <<dec_picture_number, retcode, samplesLeft, lastFeed, feedEverFailed,
                   danglingSkipped, freed>>
    /\ UNCHANGED filterVars

\* line 103: buffer_feed_next_sample delivers the next sample or fails
Feed(feed) ==
    /\ feed \in {SUCCESS, FAILURE}
    /\ feed = SUCCESS => samplesLeft > 0
    /\ samplesLeft' = IF feed = SUCCESS THEN samplesLeft - 1 ELSE samplesLeft
    /\ lastFeed' = feed
    /\ feedEverFailed' = (feedEverFailed \/ feed = FAILURE)
    /\ UNCHANGED danglingSkipped

\* One iteration of the loop of lines 100-212 ends in state d with retcode r
EndIteration(d, r) ==
    LET t == LoopTail(d, r, dec_picture_number)
    IN  /\ dc' = t.dc
        /\ retcode' = t.retcode
        /\ dpc' = IF t.dc.decoderRunning THEN "loop" ELSE "exit"
        /\ UNCHANGED <<dec_picture_number, freed, norm>>
        /\ UNCHANGED filterVars

InLoop == dpc = "loop" /\ dc.decoderRunning

\* lines 111-115: non-IDR slice, nothing is done
NalSlice ==
    /\ InLoop
    /\ \E feed \in {SUCCESS, FAILURE} :
          /\ Feed(feed)
          /\ EndIteration(dc, feed)
    /\ UNCHANGED cache

\* lines 117-136, the result of decode_slice being an input
NalIdr ==
    /\ InLoop
    /\ \E feed \in {SUCCESS, FAILURE}, ok \in BOOLEAN :
          /\ ok => dc.idrCounter < MaxDecoded
          /\ Feed(feed)
          /\ EndIteration(HandleIdr(dc, ok), RetcodeAfterHandler(feed, ok))
    /\ UNCHANGED cache

\* lines 138-178, the result of decodeSEI, decodeSPS, decodePPS being an input
NalParam ==
    /\ InLoop
    /\ \E feed \in {SUCCESS, FAILURE}, ok \in BOOLEAN,
          type \in {NALU_TYPE_SEI, NALU_TYPE_SPS, NALU_TYPE_PPS} :
          /\ Feed(feed)
          /\ EndIteration(HandleParam(dc, ok), RetcodeAfterHandler(feed, ok))
    /\ UNCHANGED cache

\* lines 180-185
NalUnsupported ==
    /\ InLoop
    /\ \E feed \in {SUCCESS, FAILURE}, type \in UnsupportedNalTypes :
          /\ Feed(feed)
          /\ EndIteration(CountError(dc), feed)
    /\ UNCHANGED cache

\* lines 191-195: nalu_parse_header failed
NalInvalidHeader ==
    /\ InLoop
    /\ \E feed \in {SUCCESS, FAILURE} :
          /\ Feed(feed)
          /\ EndIteration(CountError(dc), feed)
    /\ UNCHANGED cache

\* One release made by freeDecodingContext: the field and, for an array, the slot
Release(res, slot) == [res |-> res, slot |-> slot]

\* Variant of the teardown: the context is released before its content.
freeDecodingContextContextFirst(c) ==
    <<Release("dc", 0), Release("bitstr", 0)>>
    \o (IF c.active_nalu # NULL THEN <<Release("active_nalu", 0)>> ELSE <<>>)
    \o [k \in 1..Cardinality(SpsIds) |-> Release("sps_array", k - 1)]
    \o [k \in 1..Cardinality(PpsIds) |-> Release("pps_array", k - 1)]
    \o <<Release("active_sei", 0), Release("active_slice", 0), Release("mb_array", 0)>>

\* lines 390-431, *dc_ptr not NULL: free_bitstream, free(active_nalu),
\* freeSPS and freePPS on every slot in index order, freeSEI, free_slice,
\* freeMbArray, then free(*dc_ptr). dc->VideoFile is not touched.
freeDecodingContext(c) ==
    <<Release("bitstr", 0)>>
    \o (IF c.active_nalu # NULL THEN <<Release("active_nalu", 0)>> ELSE <<>>)
    \o [k \in 1..Cardinality(SpsIds) |-> Release("sps_array", k - 1)]
    \o [k \in 1..Cardinality(PpsIds) |-> Release("pps_array", k - 1)]
    \o <<Release("active_sei", 0), Release("active_slice", 0), Release("mb_array", 0),
          Release("dc", 0)>>

\* lines 214-218: freeDecodingContext(&dc), which releases the context and
\* sets dc to NULL, and return retcode
DecodeExit ==
    /\ dpc = "exit"
    /\ dc' = [dc EXCEPT !.alive = FALSE]
    /\ freed' = freed \o freeDecodingContext(cache)
    /\ dpc' = "done"
    /\ UNCHANGED <<dec_picture_number, retcode, samplesLeft, lastFeed, feedEverFailed,
                   danglingSkipped, cache, norm>>
    /\ UNCHANGED filterVars

DecodeNext ==
    \/ DecodeNoContext
    \/ DecodeStart
    \/ NalSlice
    \/ NalIdr
    \/ NalParam
    \/ NalUnsupported
    \/ NalInvalidHeader
    \/ DecodeExit

SpecDecode == DecodeInit /\ [][DecodeNext]_vars

(***************************************************************************)
(* h264.c : h264_decode on a stream whose NAL units are all non-IDR slices *)
(***************************************************************************)
SlicesInit == DecodeInit

SlicesNext ==
    \/ DecodeNoContext
    \/ DecodeStart
    \/ NalSlice
    \/ DecodeExit

SpecSlices == SlicesInit /\ [][SlicesNext]_vars

(***************************************************************************)
(* h264.c : h264_decode with the parameter set slots                       *)
(***************************************************************************)
CacheInit ==
    /\ dpc = "start"
    /\ dc = NoContext
    /\ dec_picture_number \in 0..MaxCachePictures
    /\ retcode = FAILURE
    /\ samplesLeft \in 0..MaxNals
    /\ lastFeed = FAILURE
    /\ feedEverFailed = FALSE
    /\ cache = NoCache
    /\ freed = <<>>
    /\ norm = NoNorm
    /\ danglingSkipped = FALSE
    /\ FilterIdle

\* lines 138-150: SEI
NalSei ==
    /\ InLoop
    /\ \E feed \in {SUCCESS, FAILURE}, ok \in BOOLEAN :
          /\ Feed(feed)
          /\ EndIteration(HandleParam(dc, ok), RetcodeAfterHandler(feed, ok))
    /\ UNCHANGED cache

\* lines 152-164: SPS
NalSps ==
    /\ InLoop
    /\ \E feed \in {SUCCESS, FAILURE}, ok \in BOOLEAN, id \in SpsIds :
          /\ Feed(feed)
          /\ cache' = IF ok THEN decodeSPS(cache, id) ELSE cache
          /\ EndIteration(HandleParam(dc, ok), RetcodeAfterHandler(feed, ok))

\* lines 166-178: PPS
NalPps ==
    /\ InLoop
    /\ \E feed \in {SUCCESS, FAILURE}, ok \in BOOLEAN, id \in PpsIds, sid \in SpsIds :
          /\ Feed(feed)
          /\ cache' = IF ok THEN decodePPS(cache, id, sid) ELSE cache
          /\ EndIteration(HandleParam(dc, ok), RetcodeAfterHandler(feed, ok))

\* lines 103-124: an IDR NAL unit up to the call of decode_slice
NalIdrBegin ==
    /\ InLoop
    /\ \E feed \in {SUCCESS, FAILURE} :
          /\ Feed(feed)
          /\ retcode' = feed
    /\ dc' = [dc EXCEPT !.IdrPicFlag = TRUE]
    /\ dpc' = "slice"
    /\ UNCHANGED <<dec_picture_number, cache, freed, norm>>
    /\ UNCHANGED filterVars

\* lines 124-136 and 189-211: decode_slice(dc) returns, leaving the slice
\* header it parsed in the context, and line 124 tests what it returned
NalIdrEnd ==
    /\ dpc = "slice"
    /\ \E pid \in PpsIds, as \in SpsIds, ap \in PpsIds, ok \in BOOLEAN :
          LET c == SliceHeader(cache, pid, as, ap)
              decoded == decode_slice(c, ok) # 0
          IN  /\ decoded => dc.idrCounter < MaxDecoded
              /\ cache' = c
              /\ danglingSkipped' = (danglingSkipped \/ (~decoded /\ ~c.pps_array[pid].allocated))
              /\ EndIteration(HandleIdr(dc, decoded), RetcodeAfterHandler(retcode, decoded))
    /\ UNCHANGED <<samplesLeft, lastFeed, feedEverFailed>>

CacheNext ==
    \/ DecodeNoContext
    \/ DecodeStart
    \/ NalSlice
    \/ NalSei
    \/ NalSps
    \/ NalPps
    \/ NalIdrBegin
    \/ NalIdrEnd
    \/ NalUnsupported
    \/ NalInvalidHeader
    \/ DecodeExit

SpecCache == CacheInit /\ [][CacheNext]_vars

(***************************************************************************)
(* h264.c : checkDecodingContext on any context                            *)
(***************************************************************************)
\* The values of a slot of sps_array, of a slot of pps_array and of
\* active_slice
SpsSlots == {NullSps, [allocated |-> TRUE]}
PpsSlots == {NullPps} \cup {[allocated |-> TRUE, seq_parameter_set_id |-> s] : s \in SpsIds}
SliceValues == {NullSlice} \cup {[allocated |-> TRUE, pic_parameter_set_id |-> p] : p \in PpsIds}

\* The fields checkDecodingContext reads, in every combination
Contexts ==
    [bitstr       : {NULL, 1},
     active_nalu  : {NULL, 1},
     sps_array    : [SpsIds -> SpsSlots],
     pps_array    : [PpsIds -> PpsSlots],
     active_sps   : SpsIds,
     active_pps   : PpsIds,
     active_slice : SliceValues]

CheckInit ==
    /\ FilterIdle
    /\ dpc = "idle"
    /\ dc = NoContext
    /\ cache \in Contexts
    /\ freed = <<>>
    /\ norm = NoNorm
    /\ danglingSkipped = FALSE
    /\ dec_picture_number = 0
    /\ retcode = FAILURE
    /\ samplesLeft = 0
    /\ lastFeed = FAILURE
    /\ feedEverFailed = FALSE

\* lines 317-371: one call of checkDecodingContext; the context is only read
CheckDecodingContextCall ==
    /\ call = NoCall
    /\ call' = [fn |-> "checkDecodingContext", arg |-> 0, ret |-> checkDecodingContext(cache)]
    /\ UNCHANGED <<fpc, callerHandle, heap, picture_number, picture_extraction_mode, filterRet,
                   temporary_totalsamples_idr>>
    /\ UNCHANGED decodeVars

CheckNext == CheckDecodingContextCall

SpecCheck == CheckInit /\ [][CheckNext]_vars

(***************************************************************************)
(* h264.c : one call of computeNormAdjust, entry by entry                  *)
(***************************************************************************)
\* h264_decode is at line 85: the context exists as initDecodingContext left
\* it (picture_number 1, line 251), computeNormAdjust(dc) is called
NormInit ==
    /\ FilterIdle
    /\ dpc = "start"
    /\ dc = [NoContext EXCEPT !.alive = TRUE, !.picture_number = 1]
    /\ cache = StartedCache
    /\ freed = <<>>
    /\ norm = CallocNorm
    /\ danglingSkipped = FALSE
    /\ dec_picture_number = 0
    /\ retcode = FAILURE
    /\ samplesLeft = 0
    /\ lastFeed = FAILURE
    /\ feedEverFailed = FALSE

NormUnchanged ==
    /\ UNCHANGED filterVars
    /\ UNCHANGED <<dpc, dc, dec_picture_number, retcode, samplesLeft, lastFeed,
                   feedEverFailed, danglingSkipped, cache, freed>>

\* lines 443-475: dc is not NULL, the loops start at q = 0, i = 0, j = 0
NormEnter ==
    /\ norm.pc = "call"
    /\ norm' = [norm EXCEPT !.pc = "4x4", !.q = 0, !.i = 0, !.j = 0]
    /\ NormUnchanged

\* lines 475-488: one pass of the body of the 4x4 loops, then j++ (and
\* i++ past the last column; past the last row the 8x8 loops start)
NormAdjust4x4Step ==
    /\ norm.pc = "4x4"
    /\ LET q == norm.q
           i == norm.i
           j == norm.j
           t == [norm EXCEPT !.normAdjust4x4[q][i][j] = NormAdjust4x4Entry(q, i, j)]
       IN  norm' = IF j + 1 < Size4x4 THEN [t EXCEPT !.j = j + 1]
                   ELSE IF i + 1 < Size4x4 THEN [t EXCEPT !.i = i + 1, !.j = 0]
                   ELSE [t EXCEPT !.pc = "8x8", !.i = 0, !.j = 0]
    /\ NormUnchanged

\* lines 491-510: one pass of the body of the 8x8 loops, then j++ (and
\* i++ past the last column; past the last row q++, line 472)
NormAdjust8x8Step ==
    /\ norm.pc = "8x8"
    /\ LET q == norm.q
           i == norm.i
           j == norm.j
           t == [norm EXCEPT !.normAdjust8x8[q][i][j] = NormAdjust8x8Entry(q, i, j)]
       IN  norm' = IF j + 1 < Size8x8 THEN [t EXCEPT !.j = j + 1]
                   ELSE IF i + 1 < Size8x8 THEN [t EXCEPT !.i = i + 1, !.j = 0]
                   ELSE IF q + 1 < QSteps THEN [t EXCEPT !.pc = "4x4", !.q = q + 1, !.i = 0, !.j = 0]
                   ELSE [t EXCEPT !.pc = "exit", !.q = q + 1, !.i = Size8x8, !.j = Size8x8]
    /\ NormUnchanged

\* lines 513-516
NormReturn ==
    /\ norm.pc = "exit"
    /\ norm' = [norm EXCEPT !.pc = "returned", !.retcode = SUCCESS]
    /\ NormUnchanged

NormNext ==
    \/ NormEnter
    \/ NormAdjust4x4Step
    \/ NormAdjust8x8Step
    \/ NormReturn

SpecNorm == NormInit /\ [][NormNext]_vars

(***************************************************************************)
(* Properties of idr_filtering (checked under SpecFilter)                  *)
(***************************************************************************)
Min(a, b) == IF a < b THEN a ELSE b

InputMap == heap[InputId].map
FilteredMap == heap[FilteredId].map
HadInputMap == heap[InputId].state # "unallocated"
FilteringMode == picture_extraction_mode \in {PICTURE_ORDERED, PICTURE_DISTRIBUTED}
\* idr_filtering returned after building the filtered map
BuiltFiltered == fpc = "returned" /\ heap[FilteredId].state = "live"

\* The IDR samples of a map that pass the border cut and the size threshold,
\* as a set of sample indices.
SurvivorSet(map) ==
    IF map.sample_count_idr = 0 THEN {}
    ELSE {j \in (Spspps(map) + FrameBorders(map)) ..
                (map.sample_count - FrameBorders(map) - 1) :
            map.sample_size[j] > FrameSizeThreshold(map, 0)}

\* The survivor with exactly k survivors before it (decode order)
KthSurvivor(map, k) ==
    CHOOSE j \in SurvivorSet(map) : Cardinality({x \in SurvivorSet(map) : x < j}) = k

\* IDR entry k of the filtered map is a copy of sample j of the input map
CopiesInput(k, j) ==
    LET e == Spspps(InputMap) + k
    IN  /\ FilteredMap.sample_type[e]   = InputMap.sample_type[j]
        /\ FilteredMap.sample_size[e]   = InputMap.sample_size[j]
        /\ FilteredMap.sample_offset[e] = InputMap.sample_offset[j]
        /\ FilteredMap.sample_pts[e]    = InputMap.sample_pts[j]

\* The call divided by picture_number - 1 = 0 (line 128) and went on: the
\* only way it returns 1 in a filtering mode.
DividedByZero == FilteringMode /\ filterRet = 1

\* C1: after idr_filtering returns a non-zero picture count in mode ORDERED
\* or DISTRIBUTED, the caller's handle is non-null and refers to the newly
\* built filtered map, not to the released input map. (Stated for the calls
\* whose behaviour is defined.)
C1_HandleRefersToFiltered ==
    (fpc = "returned" /\ FilteringMode /\ filterRet # 0 /\ ~DividedByZero)
        => /\ callerHandle # NULL
           /\ callerHandle = FilteredId
           /\ heap[FilteredId].state = "live"

\* C2: for a populated map, n >= 1 and mode ORDERED or DISTRIBUTED, the
\* call returns min(n, N), N the number of survivors, and the filtered map
\* it builds has sample_count_idr equal to the returned value. (Stated for
\* the calls whose behaviour is defined.)
C2_ReturnsClampAndCountsIdr ==
    (BuiltFiltered /\ FilteringMode /\ picture_number >= 1 /\ ~DividedByZero)
        => /\ filterRet = Min(picture_number, Cardinality(SurvivorSet(InputMap)))
           /\ FilteredMap.sample_count_idr = filterRet

\* C3: in mode ORDERED with a clamped picture_number >= 2, IDR entry k of
\* the filtered map copies survivor k of the input map, so the selected
\* input samples are strictly increasing in decode order.
C3_OrderedTakesFirstSurvivors ==
    (BuiltFiltered /\ picture_extraction_mode = PICTURE_ORDERED /\ filterRet >= 2)
        => /\ filterRet <= Cardinality(SurvivorSet(InputMap))
           /\ \A k \in 0..(filterRet - 1) : CopiesInput(k, KthSurvivor(InputMap, k))
           /\ \A k \in 0..(filterRet - 2) :
                 FilteredMap.sample_offset[Spspps(InputMap) + k]
                     < FilteredMap.sample_offset[Spspps(InputMap) + k + 1]

C3_Witness ==
    /\ BuiltFiltered
    /\ picture_extraction_mode = PICTURE_ORDERED
    /\ filterRet = 2
    /\ Cardinality(SurvivorSet(InputMap)) = 3
    /\ \E j \in DOMAIN InputMap.sample_size :
          /\ j > KthSurvivor(InputMap, 0)
          /\ j < KthSurvivor(InputMap, 1)
          /\ j \notin SurvivorSet(InputMap)

\* C4: in mode DISTRIBUTED with a clamped picture_number p >= 2, each of
\* the p selected entries is a real survivor (never an unwritten slot of the
\* survivor array) and the p selected survivors are pairwise distinct.
C4_DistributedPicksSurvivors ==
    (BuiltFiltered /\ picture_extraction_mode = PICTURE_DISTRIBUTED /\ filterRet >= 2)
        => /\ \A k \in 0..(filterRet - 1) :
                 \E j \in SurvivorSet(InputMap) : CopiesInput(k, j)
           /\ \A k1, k2 \in 0..(filterRet - 1) :
                 k1 # k2 => FilteredMap.sample_offset[Spspps(InputMap) + k1]
                              # FilteredMap.sample_offset[Spspps(InputMap) + k2]

\* Scenario S2: three IDR samples of equal size, request (3, ORDERED)
IsScenarioS2 ==
    /\ HadInputMap
    /\ InputMap.sample_count_idr = 3
    /\ \A i, j \in Spspps(InputMap)..(InputMap.sample_count - 1) :
          InputMap.sample_size[i] = InputMap.sample_size[j]
    /\ picture_number = 3
    /\ picture_extraction_mode = PICTURE_ORDERED

\* C5: in scenario S2 (exact fit) idr_filtering returns 3 with all three
\* IDR samples kept (so that the dispatcher can decode all three).
C5_ExactFitKeepsAllThree ==
    (IsScenarioS2 /\ fpc # "call")
        => /\ fpc = "returned"
           /\ filterRet = 3
           /\ heap[FilteredId].state = "live"
           /\ \A k \in 0..2 : CopiesInput(k, Spspps(InputMap) + k)

\* C6: in mode UNFILTERED idr_filtering returns
\* min(picture_number, sample_count_idr) and leaves the caller's handle and
\* the whole heap (every field of the map, nothing released) unchanged.
C6_UnfilteredLeavesMap ==
    [][(fpc = "call" /\ callerHandle # NULL
           /\ picture_extraction_mode = PICTURE_UNFILTERED)
         => /\ fpc' = "returned"
            /\ filterRet' = Min(picture_number, heap[callerHandle].map.sample_count_idr)
            /\ callerHandle' = callerHandle
            /\ heap' = heap]_vars

C6_Witness ==
    /\ fpc = "returned"
    /\ picture_extraction_mode = PICTURE_UNFILTERED
    /\ callerHandle = InputId
    /\ heap[InputId].state = "live"
    /\ InputMap.sample_count_idr = 2
    /\ picture_number = 3
    /\ filterRet = 2

\* C7: for every map with sample_count_idr = 0, every requested
\* picture_number and every mode, idr_filtering returns 0 pictures.
C7_NoIdrYieldsZero ==
    (HadInputMap /\ InputMap.sample_count_idr = 0 /\ fpc # "call")
        => fpc = "returned" /\ filterRet = 0

C7_Witness ==
    /\ fpc = "returned"
    /\ HadInputMap
    /\ InputMap.sample_count_idr = 0
    /\ InputMap.sample_count = 2
    /\ picture_number = 3
    /\ picture_extraction_mode = PICTURE_DISTRIBUTED
    /\ filterRet = 0
    /\ heap[FilteredId].state = "live"

\* The smallest integer not below 3% of count
BorderOf(count) == CHOOSE b \in 0..(count + 1) : 100 * b >= 3 * count /\ 100 * (b - 1) < 3 * count

\* The integer part of (total / count) / 1.66
ThresholdOf(total, count) ==
    CHOOSE t \in 0..total : 166 * count * t <= 100 * total /\ 100 * total < 166 * count * (t + 1)

\* The IDR positions (0 is the first IDR sample) the first cut keeps
SurvivorPositions(map) ==
    LET count == map.sample_count_idr
        first == map.sample_count - count
        total == SumRange(map.sample_size, first, map.sample_count)
    IN  IF count = 0 THEN {}
        ELSE {k \in 0..(count - 1) :
                /\ BorderOf(count) <= k
                /\ k < count - BorderOf(count)
                /\ map.sample_size[first + k] > ThresholdOf(total, count)}

\* C15: the samples kept by the first cut are the IDR positions k with
\* b <= k < count - b, b = ceil(0.03 * count), whose size is strictly above
\* the integer part of (average IDR size / 1.66), and the filtered map
\* counts that many IDR samples; 100 IDR samples of one size leave the 94
\* positions 3..96; of the sizes 100 (nine times) then 1 the last sample is
\* not kept.
C15_FirstCutKeepsBordersAndThreshold ==
    BuiltFiltered
        => LET map  == InputMap
               ids  == TemporaryIds(map, 0)
               kept == {ids[x] - Spspps(map) : x \in 1..Len(ids)}
           IN  /\ kept = SurvivorPositions(map)
               /\ Len(ids) = Cardinality(kept)
               /\ FilteredMap.sample_count_idr = Cardinality(SurvivorPositions(map))
               /\ (map.sample_count_idr = 100
                     /\ \A k \in 0..99 : map.sample_size[Spspps(map) + k] = 100)
                    => kept = 3..96 /\ Cardinality(kept) = 94
               /\ (map.sample_count_idr = 10
                     /\ \A k \in 0..8 : map.sample_size[Spspps(map) + k] = 100
                     /\ map.sample_size[Spspps(map) + 9] = 1)
                    => 9 \notin kept

\* 100 IDR samples of one size were filtered: 94 are counted
C15_Witness ==
    /\ BuiltFiltered
    /\ InputMap.sample_count_idr = 100
    /\ FilteredMap.sample_count_idr = 94
    /\ filterRet = 4

\* picture_number as lines 76-85 and 124-125 leave it
ClampedRequest ==
    ClampToSurvivors(ClampToIdrCount(InputMap, picture_number),
                     Cardinality(SurvivorPositions(InputMap)))

\* C16: when picture_number is 1 after the two clamps and at least one
\* sample survives the first cut, a call in mode ORDERED or DISTRIBUTED ends
\* without an arithmetic fault (no division by zero) and, the filtered map
\* being built, returns 1.
C16_SinglePictureCompletes ==
    (HadInputMap /\ FilteringMode /\ fpc # "call"
       /\ ClampedRequest = 1 /\ SurvivorPositions(InputMap) # {})
        => /\ fpc # "trapped"
           /\ BuiltFiltered => filterRet = 1

\* The samples of a map that are not IDR samples, as a set of indices
AuxIndices(map) ==
    {j \in 0..(map.sample_count - 1) : map.sample_type[j] # sample_VIDEO_IDR}

\* The non-IDR sample with exactly i non-IDR samples before it
IthAux(map, i) ==
    CHOOSE j \in AuxIndices(map) : Cardinality({x \in AuxIndices(map) : x < j}) = i

\* C17: the filtered map keeps every non-IDR sample of the input map
\* verbatim (type, offset, size, pts and dts), in order, in the entries
\* before its IDR entries; no input IDR sample is copied into that prefix.
C17_AuxSamplesKeptVerbatim ==
    BuiltFiltered
        => \A i \in 0..(Cardinality(AuxIndices(InputMap)) - 1) :
              LET j == IthAux(InputMap, i)
              IN  /\ FilteredMap.sample_type[i]   = InputMap.sample_type[j]
                  /\ FilteredMap.sample_type[i]   # sample_VIDEO_IDR
                  /\ FilteredMap.sample_offset[i] = InputMap.sample_offset[j]
                  /\ FilteredMap.sample_size[i]   = InputMap.sample_size[j]
                  /\ FilteredMap.sample_pts[i]    = InputMap.sample_pts[j]
                  /\ FilteredMap.sample_dts[i]    = InputMap.sample_dts[j]

(***************************************************************************)
(* Properties of idr_filtering on long maps (checked under SpecLongMap)    *)
(***************************************************************************)
\* C27: the number of survivors the first cut of idr_filtering records never
\* exceeds the 999 slots of temporary_sample_id, whatever the input map: no
\* survivor index is written at position 999 or beyond.
C27_SurvivorsFitTemporaryArray ==
    temporary_totalsamples_idr <= TemporarySlots

(***************************************************************************)
(* Properties of h264_decode (checked under SpecDecode)                    *)
(***************************************************************************)
LoopStopped == dpc \in {"exit", "done"}

\* C8: h264_decode returns SUCCESS if and only if at least one picture was
\* produced and no fatal error occurred (no feed failure, errorCounter never
\* above 64); for the run parameters picture_number >= 1.
C8_SuccessIffPictureAndNoFatal ==
    (dpc = "done" /\ dec_picture_number >= 1)
        => (retcode = SUCCESS <=>
               (dc.idrCounter >= 1 /\ ~feedEverFailed /\ dc.errorCounter <= ErrorLimit))

\* C9: when h264_decode returns SUCCESS for picture_number >= 1, idrCounter
\* equals picture_number at the moment the loop stops; a run that stops with
\* fewer IDR pictures than requested returns FAILURE.
C9_SuccessMeansAllPictures ==
    (LoopStopped /\ dec_picture_number >= 1)
        => /\ retcode = SUCCESS => dc.idrCounter = dec_picture_number
           /\ dc.idrCounter < dec_picture_number => retcode = FAILURE

C9_Witness ==
    /\ dpc = "done"
    /\ dec_picture_number = 3
    /\ retcode = SUCCESS
    /\ dc.idrCounter = 3
    /\ samplesLeft > 0

\* C10: for picture_number >= 1, an iteration of the dispatch loop halts the
\* loop exactly when idrCounter = picture_number, or errorCounter > 64, or
\* the feed of that iteration reported a failure.
C10_HaltsIffStopCondition ==
    [][(InLoop /\ dec_picture_number >= 1)
         => (~dc'.decoderRunning <=>
                \/ dc'.idrCounter = dec_picture_number
                \/ dc'.errorCounter > ErrorLimit
                \/ lastFeed' = FAILURE)]_vars

\* C11: for picture_number >= 1, an iteration whose feed succeeded and whose
\* NAL unit failed adds one to errorCounter and leaves idrCounter alone; the
\* loop keeps running while errorCounter is at most 64 (through the 64th
\* failure in a row) and stops with FAILURE when it reaches 65; once stopped
\* no further NAL unit is processed, whatever idrCounter was.
C11_StopsOnSixtyFifthFailure ==
    [][/\ InLoop => dc.errorCounter <= ErrorLimit
       /\ (InLoop /\ dec_picture_number >= 1 /\ lastFeed' = SUCCESS
              /\ dc'.errorCounter = dc.errorCounter + 1)
            => /\ dc'.idrCounter = dc.idrCounter
               /\ dc'.decoderRunning <=> dc'.errorCounter <= ErrorLimit
               /\ ~dc'.decoderRunning
                    => (dc'.errorCounter = ErrorLimit + 1 /\ retcode' = FAILURE
                          /\ dpc' = "exit")
       /\ dpc = "exit"
            => (dpc' = "done" /\ retcode' = retcode /\ samplesLeft' = samplesLeft
                  /\ dc'.errorCounter = dc.errorCounter
                  /\ dc'.idrCounter = dc.idrCounter)]_vars

\* An IDR was decoded, then 65 NAL units in a row failed while every feed
\* succeeded.
C11_Witness ==
    /\ dpc = "done"
    /\ dec_picture_number >= 2
    /\ dc.idrCounter >= 1
    /\ dc.errorCounter = ErrorLimit + 1
    /\ ~feedEverFailed
    /\ retcode = FAILURE

\* C18: with picture_number = 0, an iteration that leaves idrCounter at 0
\* (the stream has no IDR sample) stops the loop with SUCCESS whatever the
\* NAL unit was, and h264_decode returns SUCCESS with idrCounter = 0.
C18_NoPictureRequestEndsAtFirstNal ==
    [][/\ (InLoop /\ dec_picture_number = 0 /\ dc.idrCounter = 0 /\ dc'.idrCounter = 0)
            => (dpc' = "exit" /\ ~dc'.decoderRunning /\ retcode' = SUCCESS)
       /\ (dpc = "exit" /\ dec_picture_number = 0 /\ dc.idrCounter = 0)
            => (dpc' = "done" /\ retcode' = SUCCESS /\ dc'.idrCounter = 0)]_vars

\* The first NAL unit was read and was not a valid one; SUCCESS is returned
C18_Witness ==
    /\ dpc = "done"
    /\ dec_picture_number = 0
    /\ dc.idrCounter = 0
    /\ dc.errorCounter = 1
    /\ lastFeed = SUCCESS
    /\ retcode = SUCCESS

\* C22: an iteration whose feed reported a failure stops the loop at its
\* end with retcode FAILURE, whatever the header parse and the handler of
\* the iteration returned, unless idrCounter has just reached
\* picture_number; h264_decode then returns that FAILURE.
C22_FeedFailureIsFatal ==
    [][/\ (InLoop /\ lastFeed' = FAILURE /\ dc'.idrCounter # dec_picture_number)
            => (~dc'.decoderRunning /\ dpc' = "exit" /\ retcode' = FAILURE)
       /\ dpc = "exit" => (dpc' = "done" /\ retcode' = retcode)]_vars

\* What the context owns besides itself: the bit reader, every SPS and PPS
\* slot, the SEI, the slice and the macroblock array
OwnedResources ==
    {Release("bitstr", 0), Release("active_sei", 0), Release("active_slice", 0),
     Release("mb_array", 0)}
    \cup {Release("sps_array", i) : i \in SpsIds}
    \cup {Release("pps_array", i) : i \in PpsIds}

\* log is one orderly teardown: every owned resource is released, then the
\* context, nothing twice and the VideoFile not at all
OrderlyTeardown(log) ==
    /\ Len(log) >= 1
    /\ log[Len(log)] = Release("dc", 0)
    /\ \A r \in OwnedResources : \E k \in 1..(Len(log) - 1) : log[k] = r
    /\ \A k1, k2 \in 1..Len(log) : log[k1] = log[k2] => k1 = k2
    /\ \A k \in 1..Len(log) : log[k].res # "VideoFile"

\* C26: h264_decode returns either without having created a context, or
\* after the loop stopped (success, error threshold or feed failure) and
\* the context was torn down once: every SPS and PPS slot, the SEI, the
\* slice, the macroblock array and the bit reader released before the
\* context, the context released last and the handle null, the VideoFile
\* never released; nothing is released before the loop has stopped.
C26_ContextTornDownOnceOnExit ==
    [][/\ dpc' = "done"
            => \/ dpc = "start" /\ ~dc.alive /\ ~dc'.alive /\ freed' = <<>>
               \/ /\ dpc = "exit"
                  /\ dc.alive /\ freed = <<>>
                  /\ OrderlyTeardown(freed')
                  /\ ~dc'.alive
       /\ dpc = "exit" => dpc' = "done"
       /\ dpc # "exit" => (freed' = freed /\ (dc.alive => dc'.alive))
       /\ (dpc = "loop" /\ ~dc'.decoderRunning) => (dpc' = "exit" /\ dc'.alive)]_vars

\* The loop stopped on the error threshold and the context was torn down
C26_Witness ==
    /\ dpc = "done"
    /\ dc.errorCounter = ErrorLimit + 1
    /\ ~feedEverFailed
    /\ retcode = FAILURE
    /\ ~dc.alive
    /\ Len(freed) = 6 + Cardinality(SpsIds) + Cardinality(PpsIds)

\* The counters of a run that asked for at least one picture
CountersInRange(d) ==
    /\ d.idrCounter = d.frameCounter
    /\ 0 <= d.idrCounter
    /\ d.idrCounter <= dec_picture_number

\* C28: in a run with picture_number >= 1, idrCounter equals frameCounter
\* and lies in 0..picture_number in every state; while the loop runs
\* idrCounter is below picture_number, and once it has reached
\* picture_number no further sample is fed and no counter changes.
C28_NeverMoreIdrThanRequested ==
    [][dec_picture_number >= 1
         => /\ CountersInRange(dc) /\ CountersInRange(dc')
            /\ InLoop => dc.idrCounter < dec_picture_number
            /\ dc.idrCounter = dec_picture_number
                 => /\ dpc = "exit" /\ dpc' = "done"
                    /\ samplesLeft' = samplesLeft
                    /\ dc'.idrCounter = dc.idrCounter
                    /\ dc'.frameCounter = dc.frameCounter
                    /\ dc'.errorCounter = dc.errorCounter]_vars

\* The second of two requested pictures was decoded with samples left
C28_Witness ==
    /\ dpc = "exit"
    /\ dc.alive
    /\ dec_picture_number = 2
    /\ dc.idrCounter = 2
    /\ dc.frameCounter = 2
    /\ samplesLeft >= 2

(***************************************************************************)
(* Properties of h264_decode and the parameter set slots (SpecCache)       *)
(***************************************************************************)
AllSlotsEmpty(c) ==
    /\ \A i \in SpsIds : ~c.sps_array[i].allocated
    /\ \A i \in PpsIds : ~c.pps_array[i].allocated

\* C12: a fresh context has every SPS and PPS slot empty; a slot is filled
\* only by an iteration whose handler succeeded; whenever idrCounter grows,
\* it grows by one at the return of decode_slice, checkDecodingContext
\* returns SUCCESS, and the PPS of the slice, the SPS of that PPS, the
\* active SPS and the active PPS were in their slots before the slice
\* arrived; with every slot empty no IDR is counted.
C12_CountedIdrHasParameterSets ==
    [][/\ dpc = "start" => AllSlotsEmpty(cache')
       /\ (cache'.sps_array # cache.sps_array \/ cache'.pps_array # cache.pps_array)
            => /\ InLoop
               /\ dc'.errorCounter = dc.errorCounter
               /\ dc'.idrCounter = dc.idrCounter
       /\ dc'.idrCounter # dc.idrCounter
            => /\ dpc = "slice"
               /\ dc'.idrCounter = dc.idrCounter + 1
               /\ checkDecodingContext(cache') = SUCCESS
               /\ cache.sps_array[cache'.active_sps].allocated
               /\ cache.pps_array[cache'.active_pps].allocated
               /\ LET pps == cache.pps_array[cache'.active_slice.pic_parameter_set_id]
                  IN  /\ pps.allocated
                      /\ cache.sps_array[pps.seq_parameter_set_id].allocated
       /\ AllSlotsEmpty(cache) => dc'.idrCounter = dc.idrCounter]_vars

\* An IDR that refers to PPS 1 was counted
C12_Witness ==
    /\ dpc = "loop"
    /\ dec_picture_number = 2
    /\ dc.idrCounter = 1
    /\ cache.active_slice.allocated
    /\ cache.active_slice.pic_parameter_set_id = 1
    /\ cache.pps_array[1].allocated
    /\ ~cache.pps_array[0].allocated
    /\ ~feedEverFailed

(***************************************************************************)
(* Properties of the sample map allocator (checked under SpecMap)          *)
(***************************************************************************)
\* Every field of m is zero, the five arrays having the given length
MapIsZero(m, entries) ==
    /\ m.sample_count = 0
    /\ m.sample_count_idr = 0
    /\ \A a \in {m.sample_type, m.sample_size, m.sample_offset, m.sample_pts, m.sample_dts} :
          /\ DOMAIN a = 0..(entries - 1)
          /\ \A i \in DOMAIN a : a[i] = 0

\* C13: init_bitstream_map returns 0 when the handle is non-null or entries
\* is 0 and then leaves the handle and the maps as they were; when it
\* returns 1 the handle refers to a live map whose every field is zero,
\* sample_count and sample_count_idr included. free_bitstream_map leaves the
\* handle null: it releases the map of a non-null handle and does nothing to
\* a null one.
C13_InitAndFreeOfMap ==
    [][/\ call'.fn = "init_bitstream_map"
            => /\ call'.ret \in {SUCCESS, FAILURE}
               /\ (callerHandle # NULL \/ call'.arg = 0)
                    => (call'.ret = FAILURE /\ callerHandle' = callerHandle /\ heap' = heap)
               /\ call'.ret = SUCCESS
                    => /\ callerHandle' # NULL
                       /\ heap'[callerHandle'].state = "live"
                       /\ MapIsZero(heap'[callerHandle'].map, call'.arg)
       /\ call'.fn = "free_bitstream_map"
            => /\ callerHandle' = NULL
               /\ callerHandle = NULL => heap' = heap
               /\ callerHandle # NULL => heap'[callerHandle].state = "freed"]_vars

\* init_bitstream_map succeeded on a handle whose earlier map was freed
C13_Witness ==
    /\ call.fn = "init_bitstream_map"
    /\ call.ret = SUCCESS
    /\ callerHandle # NULL
    /\ \E id \in MapIds : heap[id].state = "freed"

(***************************************************************************)
(* Properties of is_prime (checked under SpecPrime)                        *)
(***************************************************************************)
\* n is a prime number
Prime(n) == n >= 2 /\ \A d \in 2..(n - 1) : d * d > n \/ n % d # 0

\* C14: is_prime(n) returns 1 exactly when n is a prime number, for n in
\* 0..9999, and returns 0 for every n above 9999.
C14_IsPrimeDecidesPrimality ==
    call.fn = "is_prime"
        => /\ call.ret \in {0, 1}
           /\ call.arg <= PrimeLimit => (call.ret = 1 <=> Prime(call.arg))
           /\ call.arg > PrimeLimit => call.ret = 0

\* C19: IdrPicFlag is true exactly while decode_slice runs for an IDR NAL
\* unit and false when the case ends, on both outcomes; the case either
\* adds one to idrCounter and to frameCounter and sets errorCounter to 0
\* (decode_slice succeeded), or leaves idrCounter and frameCounter alone and
\* adds one to errorCounter (decode_slice failed).
C19_IdrCaseFlagAndCounters ==
    [][/\ dc'.IdrPicFlag <=> dpc' = "slice"
       /\ dpc = "slice"
            => /\ dc.IdrPicFlag
               /\ ~dc'.IdrPicFlag
               /\ \/ /\ dc'.idrCounter = dc.idrCounter + 1
                     /\ dc'.frameCounter = dc.frameCounter + 1
                     /\ dc'.errorCounter = 0
                  \/ /\ dc'.idrCounter = dc.idrCounter
                     /\ dc'.frameCounter = dc.frameCounter
                     /\ dc'.errorCounter = dc.errorCounter + 1
       /\ dpc # "slice"
            => (dc'.idrCounter = dc.idrCounter /\ dc'.frameCounter = dc.frameCounter)]_vars

\* decode_slice is running for a second IDR after an error was counted
C19_Witness ==
    /\ dpc = "slice"
    /\ dc.IdrPicFlag
    /\ dc.idrCounter = 1
    /\ dc.errorCounter >= 1

\* C20: for picture_number >= 1, an IDR slice whose pic_parameter_set_id
\* names a PPS slot that was never filled is skipped: errorCounter grows by
\* one, idrCounter and frameCounter stay, and the loop goes on when
\* errorCounter is at most 64 and the feed of the iteration succeeded.
C20_DanglingPpsSkipsSlice ==
    [][(/\ dpc = "slice"
        /\ dec_picture_number >= 1
        /\ ~cache.pps_array[cache'.active_slice.pic_parameter_set_id].allocated)
         => /\ dc'.errorCounter = dc.errorCounter + 1
            /\ dc'.idrCounter = dc.idrCounter
            /\ dc'.frameCounter = dc.frameCounter
            /\ (dc'.errorCounter <= ErrorLimit /\ lastFeed = SUCCESS)
                 => (dc'.decoderRunning /\ dpc' = "loop")]_vars

\* A slice that named the empty PPS slot 1 was skipped, the loop went on, and
\* a later IDR that names PPS 0 was decoded and counted: errorCounter is back
\* at 0, slot 1 is still empty, and no feed failed on the way
C20_Witness ==
    /\ dpc = "loop"
    /\ dc.decoderRunning
    /\ dec_picture_number >= 2
    /\ danglingSkipped
    /\ dc.idrCounter = 1
    /\ dc.frameCounter = 1
    /\ dc.errorCounter = 0
    /\ ~feedEverFailed
    /\ cache.active_slice.allocated
    /\ cache.active_slice.pic_parameter_set_id = 0
    /\ ~cache.pps_array[1].allocated
    /\ cache.pps_array[0].allocated

(***************************************************************************)
(* Properties of h264_decode on non-IDR slices (checked under SpecSlices)  *)
(***************************************************************************)
\* C21: a non-IDR slice (nal_unit_type 1) that was read adds one to
\* errorCounter, as an unknown NAL type does, so that the slice which takes
\* errorCounter above 64 stops the loop with FAILURE (picture_number >= 1).
C21_NonIdrSliceCountsAsError ==
    [][(InLoop /\ dec_picture_number >= 1 /\ lastFeed' = SUCCESS)
         => /\ dc'.errorCounter = dc.errorCounter + 1
            /\ dc'.errorCounter > ErrorLimit
                 => (~dc'.decoderRunning /\ dpc' = "exit" /\ retcode' = FAILURE)]_vars

(***************************************************************************)
(* Properties of checkDecodingContext (checked under SpecCheck)            *)
(***************************************************************************)
\* The seven conditions a slice decode needs
SliceDecodable(c) ==
    /\ c.bitstr # NULL
    /\ c.active_nalu # NULL
    /\ c.sps_array[c.active_sps] # NullSps
    /\ c.pps_array[c.active_pps] # NullPps
    /\ c.active_slice # NullSlice
    /\ \E p \in PpsIds, q \in SpsIds :
          /\ c.active_slice.pic_parameter_set_id = p
          /\ c.pps_array[p] = [allocated |-> TRUE, seq_parameter_set_id |-> q]
          /\ c.sps_array[q] # NullSps

\* C23: checkDecodingContext returns SUCCESS if and only if the bit reader
\* and the active NAL are non-null, SPS[active_sps] and PPS[active_pps] are
\* present, the active slice is non-null, and the PPS the slice names and
\* the SPS that PPS names are present; it returns FAILURE otherwise, and it
\* changes neither the context nor the parameter set slots.
C23_CheckIsTheSevenConditions ==
    [][call'.fn = "checkDecodingContext"
         => /\ call'.ret = (IF SliceDecodable(cache) THEN SUCCESS ELSE FAILURE)
            /\ cache' = cache
            /\ dc' = dc]_vars

\* The check failed on the seventh condition alone: the bit reader, the NAL,
\* the active SPS 0, the active PPS 0, the slice and the PPS 1 it names are
\* present, and the SPS 1 that PPS 1 names is not
C23_Witness ==
    /\ call.fn = "checkDecodingContext"
    /\ call.ret = FAILURE
    /\ cache.bitstr # NULL
    /\ cache.active_nalu # NULL
    /\ cache.active_sps = 0
    /\ cache.sps_array[0] # NullSps
    /\ cache.active_pps = 0
    /\ cache.pps_array[0] # NullPps
    /\ cache.active_slice = [allocated |-> TRUE, pic_parameter_set_id |-> 1]
    /\ cache.pps_array[1] = [allocated |-> TRUE, seq_parameter_set_id |-> 1]
    /\ cache.sps_array[1] = NullSps

(***************************************************************************)
(* Properties of computeNormAdjust (checked under SpecNorm)                *)
(***************************************************************************)
IsEven(x) == \E k \in 0..x : x = 2 * k
IsOdd(x) == \E k \in 0..x : x = 2 * k + 1

\* C24: after computeNormAdjust, for q in 0..5 and i, j in 0..3,
\* normAdjust4x4[q][i][j] is v4x4[q][0] when i and j are both even,
\* v4x4[q][1] when both are odd and v4x4[q][2] otherwise; every entry is one
\* of the three values of v4x4[q] and the table is symmetric in (i, j).
C24_NormAdjust4x4FollowsRule ==
    norm.pc = "returned"
        => \A q \in 0..(QSteps - 1), i \in 0..(Size4x4 - 1), j \in 0..(Size4x4 - 1) :
              LET e == norm.normAdjust4x4[q][i][j]
              IN  /\ (IsEven(i) /\ IsEven(j)) => e = V4x4(q, 0)
                  /\ (IsOdd(i) /\ IsOdd(j)) => e = V4x4(q, 1)
                  /\ (IsEven(i) # IsEven(j)) => e = V4x4(q, 2)
                  /\ e \in {V4x4(q, k) : k \in 0..2}
                  /\ e = norm.normAdjust4x4[q][j][i]

\* The call returned with the 4x4 tables of the first and the last q filled
C24_Witness ==
    /\ norm.pc = "returned"
    /\ norm.retcode = SUCCESS
    /\ norm.normAdjust4x4[0][0][2] = 10
    /\ norm.normAdjust4x4[5][1][3] = 29
    /\ norm.normAdjust4x4[5][3][2] = 23

\* Rule k of the 8x8 table applies to (i, j); rule 5 is the remaining case
Rule8x8(k, i, j) ==
    LET r0 == (i % 4 = 0) /\ (j % 4 = 0)
        r1 == IsOdd(i) /\ IsOdd(j)
        r2 == (i % 4 = 2) /\ (j % 4 = 2)
        r3 == ((i % 4 = 0) /\ IsOdd(j)) \/ ((j % 4 = 0) /\ IsOdd(i))
        r4 == ((i % 4 = 0) /\ (j % 4 = 2)) \/ ((j % 4 = 0) /\ (i % 4 = 2))
    IN  CASE k = 0 -> r0
          [] k = 1 -> r1
          [] k = 2 -> r2
          [] k = 3 -> r3
          [] k = 4 -> r4
          [] OTHER -> ~(r0 \/ r1 \/ r2 \/ r3 \/ r4)

\* C25: after computeNormAdjust, for q in 0..5 and i, j in 0..7,
\* normAdjust8x8[q][i][j] is v8x8[q][k] for the rule k that applies to
\* (i, j); exactly one of the six rules applies, so the order in which they
\* are tried changes nothing; every entry is one of the values of v8x8[q].
C25_NormAdjust8x8FollowsRules ==
    norm.pc = "returned"
        => \A q \in 0..(QSteps - 1), i \in 0..(Size8x8 - 1), j \in 0..(Size8x8 - 1) :
              LET e == norm.normAdjust8x8[q][i][j]
              IN  /\ \A k \in 0..5 : Rule8x8(k, i, j) => e = V8x8(q, k)
                  /\ Cardinality({k \in 0..5 : Rule8x8(k, i, j)}) = 1
                  /\ e \in {V8x8(q, k) : k \in 0..5}

\* The call returned with the 8x8 tables of the first and the last q filled
C25_Witness ==
    /\ norm.pc = "returned"
    /\ norm.normAdjust8x8[0][0][0] = 20
    /\ norm.normAdjust8x8[3][4][2] = 35
    /\ norm.normAdjust8x8[5][2][3] = 43
    /\ norm.normAdjust8x8[5][7][4] = 34

====
